---- MODULE Spec2Model ----
(***************************************************************************)
(* Order total computation and promotion engine of the eShopping API.      *)
(*                                                                         *)
(* Promotion documents (App/Models/promotion.js), the promotion controller *)
(* (Controllers/promotionController.js), order documents                   *)
(* (App/Models/order.js) and the order controller                          *)
(* (Controllers/orderController.js).                                       *)
(*                                                                         *)
(* Representation.                                                         *)
(*  - Dates are integers on the clock `now`.                               *)
(*  - An absent (undefined) field is the value Undefined.                  *)
(*  - Amounts of money are exact integers counting 1/Scale of a currency   *)
(*    unit.  Request bodies carry whole units (Money(u) = u * Scale), so   *)
(*    price * (1 - value / 100) is exact: price * (Scale - value) / Scale. *)
(*    A promotion's `value` is kept as the plain number the document       *)
(*    holds: a percentage, or a number of currency units for `fixed`.      *)
(*  - Mongoose persists a saved document as a $set of its modified paths,  *)
(*    validates the whole document before the save hooks run, and runs     *)
(*    update validators of findByIdAndUpdate on the paths of the update    *)
(*    only, with `this` bound to the query and not to the document.        *)
(***************************************************************************)
EXTENDS Integers, Sequences, FiniteSets, TLC

VARIABLES
    now,         \* the clock read by new Date()
    promotions,  \* the promotions collection: id -> persisted document
    copies,      \* per caller of incrementUsage: its loaded document and position
    orders,      \* the orders collection: id -> persisted document
    hook,        \* the run of the order save hook that is in progress
    result       \* what the last operation returned to its caller

vars == <<now, promotions, copies, orders, hook, result>>

(***************************************************************************)
(* Bounds                                                                  *)
(***************************************************************************)
MaxTime == 2
MaxCap == 2
NumCallers == 3
MaxItems == 2

(***************************************************************************)
(* Values of the model                                                     *)
(***************************************************************************)
Undefined == -1
Scale == 100

Money(units) == units * Scale

Times == 0..MaxTime
Types == {"percentage", "fixed"}
TypeInputs == Types \cup {"bogus"}
ValueInputs == {0, 10, 100, 150}
MinPurchases == {-5, 10}
PromotionIds == {"promo1"}
PromotedProducts == {"p1"}
Prices == {Money(-5), Money(0), Money(5), Money(20)}
Callers == 1..NumCallers
MaxCount == MaxCap + 1

Max(a, b) == IF a >= b THEN a ELSE b

\* JavaScript truthiness of a number-or-undefined field
Truthy(x) == x # Undefined /\ x # 0

Has(body, key) == key \in DOMAIN body

Get(body, key) == IF key \in DOMAIN body THEN body[key] ELSE Undefined

\* a request that carries nothing
NoRequest == [key \in {} |-> Undefined]

NoResult ==
    [op |-> "none", id |-> "none", price |-> 0, valid |-> FALSE, value |-> 0,
     status |-> "none", lines |-> << >>, request |-> NoRequest,
     thrown |-> "none", error |-> "none"]

(***************************************************************************)
(* Promotion evaluator: methods of the promotion document                  *)
(***************************************************************************)
isValidExclusiveEnd(p, t) ==
    /\ p.active
    /\ t >= p.startDate
    /\ t < p.endDate
    /\ (~Truthy(p.maxUsage) \/ p.currentUsage < p.maxUsage)

isValid(p, t) ==
    /\ p.active
    /\ t >= p.startDate
    /\ t <= p.endDate
    /\ (~Truthy(p.maxUsage) \/ p.currentUsage < p.maxUsage)

applyNoValidityCheck(p, price, t) ==
    IF p.type = "percentage"
      THEN (price * (Scale - p.value)) \div Scale
      ELSE Max(0, price - Money(p.value))

applyPercentageAdds(p, price, t) ==
    IF ~isValid(p, t) THEN price
    ELSE IF p.type = "percentage"
      THEN (price * (Scale + p.value)) \div Scale
      ELSE Max(0, price - Money(p.value))

applyFixedNoFloor(p, price, t) ==
    IF ~isValid(p, t) THEN price
    ELSE IF p.type = "percentage"
      THEN (price * (Scale - p.value)) \div Scale
      ELSE price - Money(p.value)

apply(p, price, t) ==
    IF ~isValid(p, t) THEN price
    ELSE IF p.type = "percentage"
      THEN (price * (Scale - p.value)) \div Scale
      ELSE Max(0, price - Money(p.value))

\* pre('save') hook of the promotion schema
preSave(p) ==
    IF Truthy(p.maxUsage) /\ p.currentUsage >= p.maxUsage
      THEN [p EXCEPT !.active = FALSE]
      ELSE p

usageExceededOffByOne(p) == Truthy(p.maxUsage) /\ p.currentUsage > p.maxUsage

\* the cap check that opens incrementUsage
usageExceeded(p) == Truthy(p.maxUsage) /\ p.currentUsage >= p.maxUsage

(***************************************************************************)
(* Schema validators of the promotion document.  `thisType` and            *)
(* `thisStartDate` are the fields the validator reads through `this`: the  *)
(* document's on save, undefined in an update validator.                   *)
(***************************************************************************)
typeEnum(val) == val \in Types

valueValidators(thisType, val) ==
    /\ (thisType # "percentage" \/ (val > 0 /\ val <= 100))
    /\ (thisType = "percentage" \/ val > 0)

startDateValidator(val, t) == val >= t

\* val > undefined is false
endDateValidator(thisStartDate, val) ==
    thisStartDate # Undefined /\ val > thisStartDate

maxUsageMin(val) == val >= 1

minPurchaseMin(val) == val >= 0

\* validation of a whole document, as save() runs it before the save hooks
validateDocument(p, t) ==
    /\ typeEnum(p.type)
    /\ valueValidators(p.type, p.value)
    /\ startDateValidator(p.startDate, t)
    /\ endDateValidator(p.startDate, p.endDate)
    /\ minPurchaseMin(p.minPurchase)
    /\ (p.maxUsage # Undefined => maxUsageMin(p.maxUsage))

\* update validators of findByIdAndUpdate(..., {runValidators: true})
validateUpdate(body, t) ==
    /\ (Has(body, "type") => typeEnum(body.type))
    /\ (Has(body, "value") => valueValidators("undefined", body.value))
    /\ (Has(body, "startDate") => startDateValidator(body.startDate, t))
    /\ (Has(body, "endDate") => endDateValidator(Undefined, body.endDate))
    /\ (Has(body, "minPurchase") => minPurchaseMin(body.minPurchase))
    /\ (Has(body, "maxUsage") => maxUsageMin(body.maxUsage))

\* what save() writes: a $set of the paths the caller's copy modified
persist(stored, before, after) ==
    [stored EXCEPT
       !.currentUsage = after.currentUsage,
       !.active = IF after.active # before.active THEN after.active ELSE @]

(***************************************************************************)
(* Promotion controller: Joi schemas of the request bodies                 *)
(***************************************************************************)
CreateKeys ==
    {"name", "description", "type", "value", "productId", "startDate",
     "endDate", "minPurchase", "maxUsage", "conditions"}

UpdateKeys == CreateKeys \cup {"active"}

\* Joi.number().min(0.01) on a whole number
joiMinValue(val) == val * 100 >= 1

joiValue(type, val) ==
    IF type = "percentage"
      THEN joiMinValue(val) /\ val <= 100
      ELSE joiMinValue(val)

promotionCreateSchema(body, t) ==
    /\ DOMAIN body \subseteq CreateKeys
    /\ {"type", "value", "productId", "startDate", "endDate"} \subseteq DOMAIN body
    /\ body.type \in Types
    /\ joiValue(body.type, body.value)
    /\ body.startDate >= t
    /\ body.endDate > body.startDate
    /\ (Has(body, "minPurchase") => body.minPurchase >= 0)
    /\ (Has(body, "maxUsage") => body.maxUsage >= 1)

promotionUpdateSchemaAnyKey(body, t) ==
    /\ DOMAIN body # {}
    /\ (Has(body, "type") => body.type \in Types)
    /\ (Has(body, "value") =>
          joiValue(IF Has(body, "type") THEN body.type ELSE "undefined", body.value))
    /\ (Has(body, "startDate") => body.startDate >= t)
    /\ (Has(body, "endDate") =>
          Has(body, "startDate") /\ body.endDate > body.startDate)
    /\ (Has(body, "minPurchase") => body.minPurchase >= 0)
    /\ (Has(body, "maxUsage") => body.maxUsage >= 1)

promotionUpdateSchema(body, t) ==
    /\ DOMAIN body \subseteq UpdateKeys
    /\ DOMAIN body # {}
    /\ (Has(body, "type") => body.type \in Types)
    /\ (Has(body, "value") =>
          joiValue(IF Has(body, "type") THEN body.type ELSE "undefined", body.value))
    /\ (Has(body, "startDate") => body.startDate >= t)
    /\ (Has(body, "endDate") =>
          Has(body, "startDate") /\ body.endDate > body.startDate)
    /\ (Has(body, "minPurchase") => body.minPurchase >= 0)
    /\ (Has(body, "maxUsage") => body.maxUsage >= 1)

\* the document model.create(body) builds: schema defaults fill what is absent
newPromotion(body) ==
    [type |-> body.type, value |-> body.value, productId |-> body.productId,
     startDate |-> body.startDate, endDate |-> body.endDate, active |-> TRUE,
     minPurchase |-> IF Has(body, "minPurchase") THEN body.minPurchase ELSE 0,
     maxUsage |-> Get(body, "maxUsage"), currentUsage |-> 0]

\* $set of the body's paths
applyUpdate(p, body) ==
    [k \in DOMAIN p |-> IF k \in DOMAIN body THEN body[k] ELSE p[k]]

(***************************************************************************)
(* Request bodies                                                          *)
(***************************************************************************)
RequiredBodies ==
    [type : TypeInputs, value : ValueInputs, productId : PromotedProducts,
     startDate : Times, endDate : Times]

PromotionCreateBodies ==
    RequiredBodies
      \cup {b @@ [maxUsage |-> m] : b \in RequiredBodies, m \in 0..MaxCap}
      \cup {b @@ [currentUsage |-> 1] : b \in RequiredBodies}
      \cup {b @@ [minPurchase |-> floor] :
              b \in RequiredBodies, floor \in MinPurchases}

PromotionUpdateBodies ==
    {[type |-> ty] : ty \in TypeInputs}
      \cup {[value |-> v] : v \in ValueInputs}
      \cup {[type |-> ty, value |-> v] : ty \in Types, v \in ValueInputs}
      \cup {[startDate |-> s] : s \in Times}
      \cup {[endDate |-> e] : e \in Times}
      \cup {[startDate |-> s, endDate |-> e] : s \in Times, e \in Times}
      \cup {[active |-> a] : a \in BOOLEAN}
      \cup {[maxUsage |-> m] : m \in 0..MaxCap}
      \cup {[currentUsage |-> 0]}
      \cup {[minPurchase |-> floor] : floor \in MinPurchases}

(***************************************************************************)
(* Operations of the promotion API                                         *)
(***************************************************************************)
Respond(op, id, status) == [NoResult EXCEPT !.op = op, !.id = id, !.status = status]

Tick ==
    /\ now < MaxTime
    /\ now' = now + 1
    /\ result' = NoResult
    /\ UNCHANGED <<promotions, copies, orders, hook>>

\* Promotion.create
PromotionCreate ==
    \E id \in PromotionIds \ DOMAIN promotions, body \in PromotionCreateBodies :
      /\ IF ~promotionCreateSchema(body, now)
           THEN /\ result' = Respond("create", id, "400")
                /\ UNCHANGED promotions
         ELSE IF ~validateDocument(newPromotion(body), now)
           THEN /\ result' = Respond("create", id, "422")
                /\ UNCHANGED promotions
         ELSE /\ promotions' = promotions @@ (id :> preSave(newPromotion(body)))
              /\ result' = Respond("create", id, "201")
      /\ UNCHANGED <<now, copies, orders, hook>>

\* Promotion.update
PromotionUpdate ==
    \E id \in PromotionIds, body \in PromotionUpdateBodies :
      /\ IF ~promotionUpdateSchema(body, now)
           THEN /\ result' = Respond("update", id, "400")
                /\ UNCHANGED promotions
         ELSE IF ~validateUpdate(body, now)
           THEN /\ result' = Respond("update", id, "422")
                /\ UNCHANGED promotions
         ELSE IF id \notin DOMAIN promotions
           THEN /\ result' = Respond("update", id, "404")
                /\ UNCHANGED promotions
         ELSE /\ promotions' =
                   [promotions EXCEPT ![id] = applyUpdate(promotions[id], body)]
              /\ result' = Respond("update", id, "200")
      /\ UNCHANGED <<now, copies, orders, hook>>

\* promotion.isValid() on a freshly loaded document
IsValidCall ==
    \E id \in DOMAIN promotions :
      /\ result' = [NoResult EXCEPT !.op = "isValid", !.id = id,
                                    !.valid = isValid(promotions[id], now)]
      /\ UNCHANGED <<now, promotions, copies, orders, hook>>

\* promotion.apply(price) on a freshly loaded document
ApplyCall ==
    \E id \in DOMAIN promotions, price \in Prices :
      /\ result' = [NoResult EXCEPT !.op = "apply", !.id = id, !.price = price,
                                    !.valid = isValid(promotions[id], now),
                                    !.value = apply(promotions[id], price, now)]
      /\ UNCHANGED <<now, promotions, copies, orders, hook>>

\* the local half of incrementUsage: the cap check and the increment
incremented(p) == [p EXCEPT !.currentUsage = @ + 1]

\* outcome of incrementUsage on the copy p when its save reaches the store at t
incrementOutcome(p, t) ==
    IF usageExceeded(p) THEN "UsageExceeded"
    ELSE IF ~validateDocument(incremented(p), t) THEN "ValidationError"
    ELSE "ok"

\* promotion.incrementUsage() run to completion on a freshly loaded document
IncrementUsageCall ==
    \E id \in DOMAIN promotions :
      LET p == promotions[id]
          q == incremented(p)
      IN /\ p.currentUsage < MaxCount
         /\ result' = Respond("incrementUsage", id, incrementOutcome(p, now))
         /\ promotions' =
              IF incrementOutcome(p, now) = "ok"
                THEN [promotions EXCEPT ![id] = persist(@, q, preSave(q))]
                ELSE promotions
         /\ UNCHANGED <<now, copies, orders, hook>>

NoPromotions == [id \in {} |-> NoResult]

NoOrders == [id \in {} |-> NoResult]

\* no save of an order is in progress
IdleHook ==
    [pc |-> "idle", doc |-> NoRequest, completed |-> << >>, values |-> << >>,
     settled |-> FALSE, assigned |-> FALSE, signals |-> << >>]

IdleCopy ==
    [pc |-> "idle", id |-> "none", outcome |-> "none",
     doc |-> [type |-> "none", value |-> 0, productId |-> "none", startDate |-> 0,
              endDate |-> 0, active |-> FALSE, minPurchase |-> 0,
              maxUsage |-> Undefined,
              currentUsage |-> 0]]

Init ==
    /\ now = 0
    /\ promotions = NoPromotions
    /\ copies = [c \in Callers |-> IdleCopy]
    /\ orders = NoOrders
    /\ hook = IdleHook
    /\ result = NoResult

Next ==
    \/ Tick
    \/ PromotionCreate
    \/ PromotionUpdate
    \/ IsValidCall
    \/ ApplyCall
    \/ IncrementUsageCall

Spec == Init /\ [][Next]_vars

(***************************************************************************)
(* incrementUsage step by step: each caller loads its own copy of the       *)
(* promotion (findById), runs the synchronous half of incrementUsage on it  *)
(* (cap check, increment), and its save reaches the store later.            *)
(***************************************************************************)
load(c) ==
    \E id \in DOMAIN promotions :
      /\ copies[c].pc = "idle"
      /\ copies' = [copies EXCEPT ![c] =
                      [pc |-> "loaded", id |-> id, outcome |-> "none",
                       doc |-> promotions[id]]]
      /\ UNCHANGED <<now, promotions, orders, hook, result>>

incrementUsage(c) ==
    /\ copies[c].pc = "loaded"
    /\ copies' = [copies EXCEPT ![c] =
                    IF usageExceeded(@.doc)
                      THEN [@ EXCEPT !.pc = "done", !.outcome = "UsageExceeded"]
                      ELSE [@ EXCEPT !.pc = "saving", !.doc = incremented(@)]]
    /\ UNCHANGED <<now, promotions, orders, hook, result>>

save(c) ==
    LET copy == copies[c]
    IN /\ copy.pc = "saving"
       /\ IF ~validateDocument(copy.doc, now)
            THEN /\ copies' = [copies EXCEPT ![c] =
                                 [@ EXCEPT !.pc = "done", !.outcome = "ValidationError"]]
                 /\ UNCHANGED promotions
            ELSE /\ copies' = [copies EXCEPT ![c] =
                                 [@ EXCEPT !.pc = "done", !.outcome = "ok",
                                           !.doc = preSave(@)]]
                 /\ promotions' = [promotions EXCEPT ![copy.id] =
                                     persist(@, copy.doc, preSave(copy.doc))]
       /\ UNCHANGED <<now, orders, hook, result>>

\* bodies of the promotion the callers compete for
RaceBodies ==
    {b \in PromotionCreateBodies : b.type = "fixed" /\ b.value = 10 /\ b.startDate = 0}

\* one promotion has been created at time 0; no call has started
InitRace ==
    /\ now = 0
    /\ \E id \in PromotionIds, body \in RaceBodies :
         /\ promotionCreateSchema(body, 0)
         /\ validateDocument(newPromotion(body), 0)
         /\ promotions = (id :> preSave(newPromotion(body)))
    /\ copies = [c \in Callers |-> IdleCopy]
    /\ orders = NoOrders
    /\ hook = IdleHook
    /\ result = NoResult

NextRace ==
    \/ Tick
    \/ \E c \in Callers : load(c)
    \/ \E c \in Callers : incrementUsage(c)
    \/ \E c \in Callers : save(c)

SpecRace == InitRace /\ [][NextRace]_vars

(***************************************************************************)
(* Orders: the order document, its save hook and the order controller       *)
(***************************************************************************)
OrderIds == {"order1"}
Products == {"p1", "p2"}
ProductRefs == Products \cup {"p9"}
ProductPrice == [ref \in Products |-> Money(20)]
Quantities == {0, 1, 3}
ItemPrices == {Money(5), Money(20)}
Statuses == {"pending", "processing", "shipped", "delivered", "cancelled"}

RECURSIVE SumSeq(_)
SumSeq(s) == IF s = << >> THEN 0 ELSE Head(s) + SumSeq(Tail(s))

\* Joi: orderItemSchema, createSchema and updateSchema of the order controller
orderItemSchema(item) ==
    /\ DOMAIN item \subseteq {"product", "variant", "quantity", "price"}
    /\ {"product", "quantity", "price"} \subseteq DOMAIN item
    /\ item.quantity >= 1
    /\ item.price >= 0

orderCreateSchema(body) ==
    /\ DOMAIN body \subseteq {"user", "items", "shippingAddress", "paymentMethod"}
    /\ Has(body, "items")
    /\ Len(body.items) >= 1
    /\ \A i \in DOMAIN body.items : orderItemSchema(body.items[i])

orderUpdateSchema(body) ==
    /\ DOMAIN body \subseteq {"status", "isPaid", "paidAt", "isDelivered", "deliveredAt"}
    /\ DOMAIN body # {}
    /\ (Has(body, "status") => body.status \in Statuses)

\* the document model.create(body) builds: schema defaults fill what is absent
newOrder(body, t) ==
    [items |-> Get(body, "items"),
     taxPrice |-> IF Has(body, "taxPrice") THEN body.taxPrice ELSE 0,
     shippingPrice |-> IF Has(body, "shippingPrice") THEN body.shippingPrice ELSE 0,
     totalPrice |-> IF Has(body, "totalPrice") THEN body.totalPrice ELSE 0,
     status |-> "pending",
     createdAt |-> t]

\* schema validation of the order document: it runs before the save hooks
validateOrderNoMin(o) ==
    \A i \in DOMAIN o.items :
      {"product", "quantity", "price"} \subseteq DOMAIN o.items[i]

validateOrder(o) ==
    \A i \in DOMAIN o.items :
      /\ {"product", "quantity", "price"} \subseteq DOMAIN o.items[i]
      /\ o.items[i].quantity >= 1

\* pre('save') hook of the order schema: one lookup per item
productFound(item) == item.product \in Products

itemTotal(item) ==
    item.quantity *
      (IF Has(item, "price") THEN item.price ELSE ProductPrice[item.product])

itemsPrices(o) == [i \in DOMAIN o.items |-> itemTotal(o.items[i])]

orderPreSaveFailsUnpricedOnly(o) ==
    \E i \in DOMAIN o.items :
      ~Has(o.items[i], "price") /\ ~productFound(o.items[i])

orderPreSaveFails(o) == \E i \in DOMAIN o.items : ~productFound(o.items[i])

orderPreSaveKeepsGivenTotal(o) ==
    IF o.totalPrice # 0 THEN o
    ELSE [o EXCEPT !.totalPrice =
            SumSeq(itemsPrices(o)) + o.taxPrice + o.shippingPrice]

orderPreSave(o) ==
    [o EXCEPT !.totalPrice = SumSeq(itemsPrices(o)) + o.taxPrice + o.shippingPrice]

\* the error model.create(doc) rejects with: the validation error, or the Error
\* the hook throws for a product it does not find
orderSaveError(o) ==
    IF ~validateOrder(o) THEN "ValidationError"
    ELSE IF orderPreSaveFails(o) THEN "Produit non trouve"
    ELSE "none"

savedOrderPartialTotal(o) ==
    IF orderSaveError(o) = "none" THEN orderPreSave(o)
    ELSE IF orderSaveError(o) = "ValidationError" THEN o
    ELSE LET found == SelectSeq(o.items, LAMBDA item : productFound(item))
         IN [o EXCEPT !.totalPrice =
               SumSeq([i \in DOMAIN found |-> itemTotal(found[i])])
                 + o.taxPrice + o.shippingPrice]

\* the in-memory document when model.create(doc) settles: the hook assigns
\* totalPrice only after every lookup has succeeded
savedOrder(o) ==
    IF orderSaveError(o) = "none" THEN orderPreSave(o) ELSE o

validateOrderUpdate(body) == Has(body, "status") => body.status \in Statuses

\* the message of the first Joi error of createSchema (abortEarly)
orderItemMessage(item) ==
    IF ~Has(item, "quantity") THEN "any.required(quantity)"
    ELSE IF item.quantity < 1 THEN "number.min(quantity)"
    ELSE IF ~Has(item, "price") THEN "any.required(price)"
    ELSE IF item.price < 0 THEN "number.min(price)"
    ELSE "none"

orderCreateMessage(body) ==
    IF ~Has(body, "items") THEN "any.required(items)"
    ELSE IF \E i \in DOMAIN body.items : orderItemMessage(body.items[i]) # "none"
      THEN LET first == CHOOSE i \in DOMAIN body.items :
                           /\ orderItemMessage(body.items[i]) # "none"
                           /\ \A j \in 1..(i - 1) :
                                orderItemMessage(body.items[j]) = "none"
           IN orderItemMessage(body.items[first])
    ELSE IF Len(body.items) < 1 THEN "array.min(items)"
    ELSE "object.unknown"

OrderItemInputs ==
    [product : ProductRefs, quantity : Quantities, price : ItemPrices]
      \cup [product : ProductRefs, quantity : {1}]

ItemLists ==
    UNION {[1..n -> OrderItemInputs] : n \in 0..MaxItems}

OrderCreateBodies ==
    {[items |-> items] : items \in ItemLists}
      \cup {[items |-> <<item>>, totalPrice |-> Money(1)] :
              item \in [product : Products, quantity : {1}, price : ItemPrices]}
      \cup {[items |-> <<item>>, shippingPrice |-> Money(5)] :
              item \in [product : Products, quantity : {1}, price : ItemPrices]}
      \cup {[items |-> <<item>>, taxPrice |-> Money(-5)] :
              item \in [product : Products, quantity : {1}, price : ItemPrices]}

\* documents handed to the order model by a caller that is not the controller
AdjustedItemLists == {items \in ItemLists : Len(items) <= 1}

OrderModelBodies ==
    {[items |-> items] : items \in ItemLists}
      \cup {[items |-> items, taxPrice |-> tax] :
              items \in AdjustedItemLists, tax \in {Money(-5), Money(5)}}
      \cup {[items |-> items, shippingPrice |-> shipping] :
              items \in AdjustedItemLists, shipping \in {Money(-5), Money(5)}}
      \cup {[items |-> items, totalPrice |-> Money(1)] :
              items \in AdjustedItemLists}

OrderUpdateBodies ==
    {[status |-> s] : s \in {"shipped", "bogus"}}
      \cup {[totalPrice |-> 0], [taxPrice |-> Money(5)], [items |-> << >>]}

\* Order.create.  A request is taken once the response to the previous create
\* request has been replaced by that of another operation.
OrderCreateOf(bodies) ==
    /\ result.request = NoRequest
    /\ \E id \in OrderIds \ DOMAIN orders, body \in bodies :
         LET order == newOrder(body, now)
         IN /\ IF ~orderCreateSchema(body)
                 THEN /\ result' = [Respond("orderCreate", id, "400")
                                      EXCEPT !.request = body,
                                             !.error = orderCreateMessage(body)]
                      /\ UNCHANGED orders
               ELSE IF orderSaveError(order) # "none"
                 THEN /\ result' = [Respond("orderCreate", id, "500")
                                      EXCEPT !.request = body,
                                             !.thrown = orderSaveError(order),
                                             !.error = "Error creating order",
                                             !.value = savedOrder(order).totalPrice]
                      /\ UNCHANGED orders
               ELSE /\ orders' = orders @@ (id :> savedOrder(order))
                    /\ result' = [Respond("orderCreate", id, "201")
                                    EXCEPT !.request = body,
                                           !.value = savedOrder(order).totalPrice,
                                           !.lines = itemsPrices(order)]
            /\ UNCHANGED <<now, promotions, copies, hook>>

OrderCreateCountingUsage ==
    /\ result.request = NoRequest
    /\ \E id \in OrderIds \ DOMAIN orders, body \in OrderCreateBodies :
         LET order == newOrder(body, now)
             used == {pid \in DOMAIN promotions :
                        \E i \in DOMAIN order.items :
                          order.items[i].product = promotions[pid].productId}
         IN /\ orderCreateSchema(body)
            /\ orderSaveError(order) = "none"
            /\ orders' = orders @@ (id :> savedOrder(order))
            /\ promotions' = [pid \in DOMAIN promotions |->
                                IF pid \in used
                                  THEN preSave(incremented(promotions[pid]))
                                  ELSE promotions[pid]]
            /\ result' = [Respond("orderCreate", id, "201")
                            EXCEPT !.request = body,
                                   !.value = savedOrder(order).totalPrice,
                                   !.lines = itemsPrices(order)]
            /\ UNCHANGED <<now, copies, hook>>

OrderCreate == OrderCreateOf(OrderCreateBodies)

\* orderModel.create(doc) called directly, not through the controller
OrderModelCreate ==
    /\ result.request = NoRequest
    /\ \E id \in OrderIds \ DOMAIN orders, body \in OrderModelBodies :
         LET order == newOrder(body, now)
         IN /\ IF orderSaveError(order) # "none"
                 THEN /\ result' = [Respond("orderModelCreate", id, "rejected")
                                      EXCEPT !.request = body,
                                             !.thrown = orderSaveError(order),
                                             !.error = orderSaveError(order),
                                             !.value = savedOrder(order).totalPrice]
                      /\ UNCHANGED orders
                 ELSE /\ orders' = orders @@ (id :> savedOrder(order))
                      /\ result' = [Respond("orderModelCreate", id, "resolved")
                                      EXCEPT !.request = body,
                                             !.value = savedOrder(order).totalPrice,
                                             !.lines = itemsPrices(order)]
            /\ UNCHANGED <<now, promotions, copies, hook>>

\* Order.update
OrderUpdate ==
    \E id \in OrderIds, body \in OrderUpdateBodies :
      /\ IF ~orderUpdateSchema(body)
           THEN /\ result' = Respond("orderUpdate", id, "400")
                /\ UNCHANGED orders
         ELSE IF ~validateOrderUpdate(body)
           THEN /\ result' = Respond("orderUpdate", id, "500")
                /\ UNCHANGED orders
         ELSE IF id \notin DOMAIN orders
           THEN /\ result' = Respond("orderUpdate", id, "404")
                /\ UNCHANGED orders
         ELSE /\ orders' = [orders EXCEPT ![id] = applyUpdate(@, body)]
              /\ result' = Respond("orderUpdate", id, "200")
      /\ UNCHANGED <<now, promotions, copies, hook>>

\* bodies of the promotion that exists while orders are placed
OrderPromotionBodies ==
    {b \in PromotionCreateBodies :
       /\ b.value = 10
       /\ b.startDate = 0
       /\ b.endDate = 1
       /\ ~Has(b, "maxUsage")}

\* no promotion, or one created at time 0; no order yet
InitOrder ==
    /\ now = 0
    /\ \/ promotions = NoPromotions
       \/ \E id \in PromotionIds, body \in OrderPromotionBodies :
            /\ promotionCreateSchema(body, 0)
            /\ validateDocument(newPromotion(body), 0)
            /\ promotions = (id :> preSave(newPromotion(body)))
    /\ copies = [c \in Callers |-> IdleCopy]
    /\ orders = NoOrders
    /\ hook = IdleHook
    /\ result = NoResult

NextOrder ==
    \/ Tick
    \/ OrderCreate
    \/ OrderModelCreate
    \/ OrderUpdate

SpecOrder == InitOrder /\ [][NextOrder]_vars

(***************************************************************************)
(* The order save hook step by step: items.map starts one product lookup   *)
(* per line, the lookups complete in any order, and Promise.all settles on *)
(* the first rejection or when every line has delivered its subtotal.  The *)
(* continuation of the hook runs in the same turn as the lookup that       *)
(* settles Promise.all.                                                    *)
(***************************************************************************)
\* the lines whose lookup is still in flight
Pending(h) == DOMAIN h.doc.items \ {h.completed[k] : k \in DOMAIN h.completed}

\* documents that pass schema validation and so reach the hook
HookBodies == {body \in OrderModelBodies : validateOrder(newOrder(body, 0))}

\* Promise.all fulfils: the hook assigns totalPrice and calls next()
fulfilled(h) ==
    [h EXCEPT !.settled = TRUE,
              !.assigned = TRUE,
              !.doc = [@ EXCEPT !.totalPrice =
                         SumSeq(h.values) + h.doc.taxPrice + h.doc.shippingPrice],
              !.signals = Append(@, "ok")]

lookupDoneSignalsEach(h, i) ==
    LET done == [h EXCEPT !.completed = Append(@, i)]
    IN IF ~productFound(h.doc.items[i])
         THEN [done EXCEPT !.settled = TRUE,
                           !.signals = Append(@, "Produit non trouve")]
         ELSE LET delivered ==
                    [done EXCEPT !.values[i] = itemTotal(h.doc.items[i])]
              IN IF ~h.settled /\ \A j \in DOMAIN delivered.values :
                                    delivered.values[j] # Undefined
                   THEN fulfilled(delivered)
                   ELSE delivered

\* the lookup of line i completes
lookupDone(h, i) ==
    LET done == [h EXCEPT !.completed = Append(@, i)]
    IN IF ~productFound(h.doc.items[i])
         THEN IF h.settled THEN done
              ELSE [done EXCEPT !.settled = TRUE,
                                !.signals = Append(@, "Produit non trouve")]
         ELSE LET delivered ==
                    [done EXCEPT !.values[i] = itemTotal(h.doc.items[i])]
              IN IF ~h.settled /\ \A j \in DOMAIN delivered.values :
                                    delivered.values[j] # Undefined
                   THEN fulfilled(delivered)
                   ELSE delivered

\* save() enters the hook: every lookup is started before any completes
HookStart ==
    /\ hook.pc = "idle"
    /\ \E body \in HookBodies :
         LET started == [IdleHook EXCEPT
                           !.pc = "running",
                           !.doc = newOrder(body, now),
                           !.values = [i \in DOMAIN body.items |-> Undefined]]
         IN hook' = IF body.items = << >> THEN fulfilled(started) ELSE started
    /\ UNCHANGED <<now, promotions, copies, orders, result>>

LookupDone ==
    /\ hook.pc = "running"
    /\ \E i \in Pending(hook) : hook' = lookupDone(hook, i)
    /\ UNCHANGED <<now, promotions, copies, orders, result>>

\* save() goes on after the hook has called next(): the document is inserted
HookInsert ==
    /\ hook.pc = "running"
    /\ hook.signals = <<"ok">>
    /\ \E id \in OrderIds \ DOMAIN orders :
         /\ orders' = orders @@ (id :> hook.doc)
         /\ hook' = [hook EXCEPT !.pc = "saved"]
    /\ UNCHANGED <<now, promotions, copies, result>>

NextHook ==
    \/ HookStart
    \/ LookupDone
    \/ HookInsert

SpecHook == InitOrder /\ [][NextHook]_vars

(***************************************************************************)
(* The promotion API and the order controller side by side                 *)
(***************************************************************************)
\* order requests sent while promotions are created, updated and used
ShopOrderBodies ==
    {[items |-> << >>]}
      \cup {[items |-> <<[product |-> ref, quantity |-> 1, price |-> Money(20)]>>] :
              ref \in {"p1", "p9"}}

NextShop ==
    \/ PromotionCreate
    \/ PromotionUpdate
    \/ IsValidCall
    \/ ApplyCall
    \/ IncrementUsageCall
    \/ OrderCreateOf(ShopOrderBodies)
    \/ OrderUpdate

SpecShop == Init /\ [][NextShop]_vars

(***************************************************************************)
(* Properties of the promotion evaluator, checked under Spec               *)
(***************************************************************************)
\* the promotion the last evaluator call was made on
Evaluated == promotions[result.id]

\* validity as the data model states it: active, inside the inclusive window,
\* and no cap set or the cap not reached
ValidAt(p, t) ==
    /\ p.active = TRUE
    /\ p.startDate <= t
    /\ t <= p.endDate
    /\ (p.maxUsage = Undefined \/ p.currentUsage < p.maxUsage)

\* C2: isValid answers true exactly when the promotion is active, now lies in
\* [startDate, endDate] with both ends included, and maxUsage is unset or
\* currentUsage is below it.
C2_IsValidIff ==
    result.op \in {"isValid", "apply"} =>
        (result.valid <=> ValidAt(Evaluated, now))

\* isValid answered true at the endDate boundary
C2_Witness ==
    /\ result.op = "isValid"
    /\ result.valid
    /\ now = Evaluated.endDate
    /\ now > Evaluated.startDate

\* C3: apply returns the price it was given whenever the promotion is not valid
\* (inactive, not started, ended, or usage exhausted).
C3_InvalidIsNoOp ==
    (result.op = "apply" /\ ~ValidAt(Evaluated, now)) =>
        result.value = result.price

\* Scenario D: maxUsage 1, currentUsage 1, price 20 comes back unchanged
C3_Witness ==
    /\ result.op = "apply"
    /\ Evaluated.maxUsage = 1
    /\ Evaluated.currentUsage = 1
    /\ Evaluated.startDate <= now
    /\ now <= Evaluated.endDate
    /\ result.price = Money(20)
    /\ result.value = Money(20)

\* C4: a valid percentage promotion with 0 < value <= 100 applied to a price >= 0
\* returns price * (1 - value / 100), which is neither above the price nor
\* negative.
C4_PercentageBounds ==
    (/\ result.op = "apply"
     /\ ValidAt(Evaluated, now)
     /\ Evaluated.type = "percentage"
     /\ Evaluated.value > 0
     /\ Evaluated.value <= 100
     /\ result.price >= 0) =>
        /\ result.value * 100 = result.price * (100 - Evaluated.value)
        /\ result.value <= result.price
        /\ result.value >= 0

\* 100 percent off a price of 20 gives 0
C4_Witness ==
    /\ result.op = "apply"
    /\ ValidAt(Evaluated, now)
    /\ Evaluated.type = "percentage"
    /\ Evaluated.value = 100
    /\ result.price = Money(20)
    /\ result.value = 0

\* C5: a valid fixed promotion returns max(0, price - value): the difference
\* when it is positive and 0 otherwise, never a negative price.
C5_FixedFloor ==
    (/\ result.op = "apply"
     /\ ValidAt(Evaluated, now)
     /\ Evaluated.type = "fixed") =>
        /\ result.value >= 0
        /\ (result.price > Money(Evaluated.value) =>
              result.value = result.price - Money(Evaluated.value))
        /\ (result.price <= Money(Evaluated.value) => result.value = 0)

\* Scenario C: price 5, fixed value 10 gives 0
C5_Witness ==
    /\ result.op = "apply"
    /\ ValidAt(Evaluated, now)
    /\ Evaluated.type = "fixed"
    /\ Evaluated.value = 10
    /\ result.price = Money(5)
    /\ result.value = 0

\* C6: on every promotion reachable by create, update and incrementUsage, apply
\* of a price >= 0 is never negative.
C6_ApplyNeverNegative ==
    (result.op = "apply" /\ result.price >= 0) => result.value >= 0

\* C7: incrementUsage on a promotion whose maxUsage is set and reached fails
\* with UsageExceeded and leaves the persisted promotion as it was.
C7_ExceededFailsUnchanged ==
    [][(/\ result'.op = "incrementUsage"
        /\ result'.id \in DOMAIN promotions
        /\ promotions[result'.id].maxUsage # Undefined
        /\ promotions[result'.id].currentUsage >= promotions[result'.id].maxUsage)
          => (result'.status = "UsageExceeded" /\ promotions' = promotions)]_vars

\* a call was refused on a promotion used exactly maxUsage times
C7_Witness ==
    /\ result.op = "incrementUsage"
    /\ result.status = "UsageExceeded"
    /\ Evaluated.currentUsage = Evaluated.maxUsage

(***************************************************************************)
(* Properties of concurrent incrementUsage calls, checked under SpecRace    *)
(***************************************************************************)
CallsWith(outcome) == {c \in Callers : copies[c].outcome = outcome}

AllCallsDone == \A c \in Callers : copies[c].pc = "done"

\* C1: with maxUsage = k and N > k concurrent calls, exactly k calls succeed,
\* N - k fail with UsageExceeded, currentUsage ends at k and never exceeds k.
C1_CapRace ==
    \A id \in DOMAIN promotions :
      LET k == promotions[id].maxUsage
      IN (k # Undefined /\ k < NumCallers) =>
           /\ promotions[id].currentUsage <= k
           /\ (AllCallsDone /\ CallsWith("ValidationError") = {}) =>
                 /\ Cardinality(CallsWith("ok")) = k
                 /\ Cardinality(CallsWith("UsageExceeded")) = NumCallers - k
                 /\ promotions[id].currentUsage = k

\* C8: a successful incrementUsage raises the persisted currentUsage by exactly
\* one; the persisted promotion is inactive afterwards if the new count reaches
\* maxUsage, and its active flag is untouched if the count stays below.
C8_SuccessAddsOne ==
    [][\A c \in Callers :
         (copies[c].pc = "saving" /\ copies'[c].outcome = "ok") =>
           LET old == promotions[copies[c].id]
               new == promotions'[copies[c].id]
           IN /\ new.currentUsage = old.currentUsage + 1
              /\ (new.maxUsage # Undefined /\ new.currentUsage >= new.maxUsage
                    => new.active = FALSE)
              /\ (new.maxUsage = Undefined \/ new.currentUsage < new.maxUsage
                    => new.active = old.active)]_vars

(***************************************************************************)
(* Properties of the order total, checked under SpecOrder                  *)
(***************************************************************************)
\* the promotions associated with a product
PromotionsFor(product) ==
    {id \in DOMAIN promotions : promotions[id].productId = product}

\* the unit price of a line after promotion at time t: the promotion of the
\* line's product applied to the line's unit price when it is valid
UnitAfterPromotion(item, t) ==
    IF \E id \in PromotionsFor(item.product) : ValidAt(promotions[id], t)
      THEN LET id == CHOOSE id \in PromotionsFor(item.product) :
                        ValidAt(promotions[id], t)
           IN apply(promotions[id], item.price, t)
      ELSE item.price

SubtotalsAfterPromotion(o) ==
    [i \in DOMAIN o.items |->
       o.items[i].quantity * UnitAfterPromotion(o.items[i], o.createdAt)]

\* C9: every persisted order has totalPrice = sum of the line subtotals after
\* promotion + taxPrice + shippingPrice.
C9_TotalIsDerived ==
    \A id \in DOMAIN orders :
      orders[id].totalPrice =
        SumSeq(SubtotalsAfterPromotion(orders[id]))
          + orders[id].taxPrice + orders[id].shippingPrice

\* C10: when a promotion of the line's product is valid at the time the total
\* is computed, the line subtotal is quantity * apply(promotion, unit price).
C10_DiscountThenMultiply ==
    (result.op = "orderCreate" /\ result.status = "201") =>
      \A i \in DOMAIN result.lines :
        LET item == orders[result.id].items[i]
        IN \A id \in PromotionsFor(item.product) :
             ValidAt(promotions[id], now) =>
               result.lines[i] =
                 item.quantity * apply(promotions[id], item.price, now)

(***************************************************************************)
(* Order totals: rejections                                                *)
(***************************************************************************)
\* the two entry points that create an order
CreateOps == {"orderCreate", "orderModelCreate"}

Created == result.op \in CreateOps /\ result.status \in {"201", "resolved"}

Rejected == result.op \in CreateOps /\ result.status \in {"400", "500", "rejected"}

RequestItems == IF Has(result.request, "items") THEN result.request.items ELSE << >>

\* C11: an order with zero items is rejected and no totalPrice is computed or
\* persisted for it, through the controller and through a direct model save.
C11_EmptyOrderRejected ==
    (result.op \in CreateOps /\ RequestItems = << >>) =>
      /\ Rejected
      /\ result.id \notin DOMAIN orders

\* a line that is well formed apart from its price, for a product that exists
PricedOrUnpriced(item) ==
    /\ item.product \in Products
    /\ item.quantity >= 1
    /\ Has(item, "price") => item.price >= 0

\* C12: the unit price of a line is its explicit price when it carries one and
\* the product's own price otherwise; a line without explicit price whose
\* product is not found fails with the product-not-found error.
C12_UnitPriceSource ==
    (/\ result.op \in CreateOps
     /\ DOMAIN result.request = {"items"}
     /\ RequestItems # << >>
     /\ \E i \in DOMAIN RequestItems : ~Has(RequestItems[i], "price")) =>
      /\ (\A i \in DOMAIN RequestItems : PricedOrUnpriced(RequestItems[i])) =>
           /\ Created
           /\ \A i \in DOMAIN RequestItems :
                result.lines[i] =
                  RequestItems[i].quantity *
                    (IF Has(RequestItems[i], "price")
                       THEN RequestItems[i].price
                       ELSE ProductPrice[RequestItems[i].product])
      /\ (\E i \in DOMAIN RequestItems :
            /\ ~Has(RequestItems[i], "price")
            /\ RequestItems[i].product \notin Products) =>
           /\ Rejected
           /\ result.thrown = "Produit non trouve"

\* some line of the request has a quantity below 1
LowQuantity ==
    \E i \in DOMAIN RequestItems :
      Has(RequestItems[i], "quantity") /\ RequestItems[i].quantity < 1

\* C13: an order with a line of quantity below 1 is rejected: it is not
\* persisted, no line subtotal is computed from it, and no persisted order
\* holds a quantity below 1.
C13_LowQuantityRejected ==
    /\ (result.op \in CreateOps /\ LowQuantity) =>
         /\ Rejected
         /\ result.id \notin DOMAIN orders
         /\ result.lines = << >>
    /\ \A id \in DOMAIN orders :
         \A i \in DOMAIN orders[id].items : orders[id].items[i].quantity >= 1

C13_Witness ==
    /\ result.op = "orderModelCreate"
    /\ result.status = "rejected"
    /\ result.thrown = "ValidationError"
    /\ LowQuantity
    /\ \A i \in DOMAIN RequestItems :
         /\ Has(RequestItems[i], "price")
         /\ RequestItems[i].product \in Products

\* C14: taxPrice and shippingPrice are 0 when the request carries none, and
\* an order whose taxPrice or shippingPrice is negative is rejected, never
\* persisted with the negative amount added into totalPrice.
C14_AdjustmentsChecked ==
    /\ Created =>
         /\ ~Has(result.request, "taxPrice") => orders[result.id].taxPrice = 0
         /\ ~Has(result.request, "shippingPrice") =>
              orders[result.id].shippingPrice = 0
    /\ (/\ result.op \in CreateOps
        /\ RequestItems # << >>
        /\ \/ /\ Has(result.request, "taxPrice")
              /\ result.request.taxPrice < 0
           \/ /\ Has(result.request, "shippingPrice")
              /\ result.request.shippingPrice < 0) =>
         /\ Rejected
         /\ result.id \notin DOMAIN orders

\* C15: a rejected creation leaves nothing behind: the order is not persisted
\* and its totalPrice is not assigned from the lines that did resolve.
C15_NoPartialTotal ==
    Rejected =>
      /\ result.id \notin DOMAIN orders
      /\ result.lines = << >>
      /\ result.value =
           (IF result.op = "orderModelCreate" /\ Has(result.request, "totalPrice")
              THEN result.request.totalPrice ELSE 0)

C15_Witness ==
    /\ result.op = "orderModelCreate"
    /\ result.status = "rejected"
    /\ result.thrown = "Produit non trouve"
    /\ \E i \in DOMAIN RequestItems : RequestItems[i].product \in Products
    /\ result.value = 0
    /\ result.id \notin DOMAIN orders

(***************************************************************************)
(* Order totals and promotion usage                                        *)
(***************************************************************************)
\* the step creates or rejects an order
CreateStep == result'.op \in CreateOps /\ result'.request # NoRequest

\* the promotions valid now on a product of some line of the request
PromotionsOnLines(items) ==
    {id \in DOMAIN promotions :
       /\ ValidAt(promotions[id], now)
       /\ \E i \in DOMAIN items : items[i].product = promotions[id].productId}

\* C16: computing an order total changes no promotion: currentUsage and
\* active of every promotion are the same after the step as before it.
C16_TotalLeavesPromotions ==
    [][CreateStep => promotions' = promotions]_vars

C16_Witness ==
    /\ Created
    /\ PromotionsOnLines(RequestItems) # {}
    /\ \A id \in PromotionsOnLines(RequestItems) :
         promotions[id].currentUsage = 0 /\ promotions[id].active

\* C17: creating an order through Order.create consumes the usage of each
\* promotion valid on one of its lines exactly once, and a failed creation
\* consumes none.
C17_UsageConsumedOnce ==
    [][(CreateStep /\ result'.op = "orderCreate") =>
         \A id \in DOMAIN promotions :
           promotions'[id].currentUsage =
             IF /\ result'.status = "201"
                /\ id \in PromotionsOnLines(result'.request.items)
               THEN promotions[id].currentUsage + 1
               ELSE promotions[id].currentUsage]_vars

\* the total the hook derives from the persisted items and adjustments
DerivedTotal(o) ==
    SumSeq([i \in DOMAIN o.items |-> o.items[i].quantity * o.items[i].price])
      + o.taxPrice + o.shippingPrice

\* C18: the persisted totalPrice is the one derived from items, taxPrice and
\* shippingPrice whatever totalPrice the client supplied, on creation and
\* after every update; the controller rejects a request that carries one.
C18_ClientTotalIgnored ==
    /\ \A id \in DOMAIN orders : orders[id].totalPrice = DerivedTotal(orders[id])
    /\ (result.op = "orderCreate" /\ Has(result.request, "totalPrice")) =>
         Rejected /\ result.id \notin DOMAIN orders

C18_Witness ==
    /\ result.op = "orderModelCreate"
    /\ Created
    /\ Has(result.request, "totalPrice")
    /\ orders[result.id].totalPrice # result.request.totalPrice
    /\ orders[result.id].totalPrice = DerivedTotal(orders[result.id])

\* C20: an error raised while an order is created reaches the caller of the
\* entry point unchanged, so that different errors stay different outcomes.
C20_ErrorsReachCaller ==
    (result.op \in CreateOps /\ result.thrown # "none") =>
      result.error = result.thrown

(***************************************************************************)
(* Promotion documents: what create, update and incrementUsage preserve    *)
(***************************************************************************)
\* C21: every persisted promotion has a value inside the range of its type:
\* 0 < value <= 100 for a percentage, value > 0 for a fixed amount.
C21_ValueInRange ==
    \A id \in DOMAIN promotions :
      /\ promotions[id].type = "percentage" =>
           (promotions[id].value > 0 /\ promotions[id].value <= 100)
      /\ promotions[id].type = "fixed" => promotions[id].value > 0

\* C22: every persisted promotion ends strictly after it starts.
C22_EndAfterStart ==
    \A id \in DOMAIN promotions : promotions[id].endDate > promotions[id].startDate

\* the usage cap of the promotion is set and reached
CapReached(p) == p.maxUsage # Undefined /\ p.currentUsage >= p.maxUsage

\* C26: a persisted promotion whose usage cap is reached is not active.
C26_CapReachedInactive ==
    \A id \in DOMAIN promotions : CapReached(promotions[id]) => ~promotions[id].active

\* C27: the usage count of a persisted promotion never exceeds its cap when
\* one is set.
C27_UsageWithinCap ==
    \A id \in DOMAIN promotions :
      promotions[id].maxUsage # Undefined =>
        promotions[id].currentUsage <= promotions[id].maxUsage

\* C23: only incrementUsage changes the usage count: every other operation
\* leaves the persisted currentUsage of each existing promotion as it was, and
\* a promotion that is created starts with currentUsage 0.
C23_SoleUsageMutator ==
    [][result'.op # "incrementUsage" =>
         \A id \in DOMAIN promotions' :
           promotions'[id].currentUsage =
             IF id \in DOMAIN promotions THEN promotions[id].currentUsage ELSE 0]_vars

C23_Witness ==
    /\ result.op = "update"
    /\ result.status = "200"
    /\ promotions[result.id].currentUsage > 0

(***************************************************************************)
(* Order totals: what a successful computation gives back                  *)
(***************************************************************************)
\* the itemized breakdown carried by the order document Order.create returns
Breakdown(o) == IF Has(o, "breakdown") THEN o.breakdown ELSE << >>

\* C24: a created order comes with a breakdown holding one entry per line, in
\* the order of the lines, whose subtotals add up, with taxPrice and
\* shippingPrice, to the total.
C24_BreakdownReturned ==
    (result.op = "orderCreate" /\ Created) =>
      LET order == orders[result.id]
      IN /\ Len(Breakdown(order)) = Len(order.items)
         /\ \A i \in DOMAIN Breakdown(order) :
              /\ Breakdown(order)[i].unitPrice = order.items[i].price
              /\ Breakdown(order)[i].subtotal =
                   order.items[i].quantity * Breakdown(order)[i].unitPrice
         /\ order.totalPrice =
              SumSeq([i \in DOMAIN Breakdown(order) |-> Breakdown(order)[i].subtotal])
                + order.taxPrice + order.shippingPrice

\* C25: a promotion whose minPurchase is above the subtotal of the order gives
\* no discount: for an order of one line of quantity 1, whose subtotal is the
\* price of the line, apply returns the price unchanged.
C25_MinPurchaseFloor ==
    (/\ result.op = "apply"
     /\ result.price >= 0
     /\ result.price < Money(promotions[result.id].minPurchase)) =>
      result.value = result.price

(***************************************************************************)
(* Concurrent use of a promotion and of the order save hook                *)
(***************************************************************************)
\* the calls of incrementUsage on the promotion that have succeeded
Succeeded(id) ==
    {c \in Callers : copies[c].id = id /\ copies[c].outcome = "ok"}

\* C28: no increment is lost: the persisted currentUsage of a promotion
\* without usage cap, created with currentUsage 0, is the number of
\* incrementUsage calls that have succeeded on it.
C28_NoLostIncrement ==
    \A id \in DOMAIN promotions :
      promotions[id].maxUsage = Undefined =>
        promotions[id].currentUsage = Cardinality(Succeeded(id))

\* the lines whose lookup has completed without finding the product
FailedLookups ==
    {i \in DOMAIN hook.doc.items :
       i \notin Pending(hook) /\ ~productFound(hook.doc.items[i])}

\* C29: the hook signals completion at most once, and exactly once when all
\* lookups have completed: with the error as soon as one lookup has failed,
\* with success otherwise; totalPrice is assigned only after every lookup has
\* succeeded, and is then the same whatever the order of completion.
C29_HookSettlesOnce ==
    hook.pc # "idle" =>
      /\ Len(hook.signals) <= 1
      /\ Pending(hook) = {} => Len(hook.signals) = 1
      /\ FailedLookups # {} => hook.signals = <<"Produit non trouve">>
      /\ hook.assigned <=> hook.signals = <<"ok">>
      /\ hook.assigned =>
           /\ Pending(hook) = {}
           /\ FailedLookups = {}
           /\ hook.doc.totalPrice = orderPreSave(hook.doc).totalPrice

C29_Witness ==
    /\ hook.assigned
    /\ Len(hook.completed) >= 2
    /\ hook.completed[1] > hook.completed[2]
    /\ hook.doc.items[1] # hook.doc.items[2]

\* some line of the request names a product that does not exist
MissingProduct == \E i \in DOMAIN RequestItems : RequestItems[i].product \notin Products

\* the request passes the validation that runs before the save hook
ReachesHook ==
    /\ validateOrder(newOrder(result.request, now))
    /\ result.op = "orderCreate" => orderCreateSchema(result.request)

\* the totalPrice the document holds before the hook assigns one
UnassignedTotal ==
    IF result.op = "orderModelCreate" /\ Has(result.request, "totalPrice")
      THEN result.request.totalPrice
      ELSE 0

\* C30: an order with a line whose product does not exist is rejected, with
\* or without explicit prices: nothing is persisted, totalPrice stays
\* unassigned, the error is the hook's product-not-found error whenever the
\* document reaches the hook, and every persisted order names existing
\* products only.
C30_MissingProductRejected ==
    /\ (result.op \in CreateOps /\ MissingProduct) =>
         /\ Rejected
         /\ result.id \notin DOMAIN orders
         /\ result.value = UnassignedTotal
         /\ ReachesHook => result.thrown = "Produit non trouve"
    /\ \A id \in DOMAIN orders :
         \A i \in DOMAIN orders[id].items : orders[id].items[i].product \in Products

C30_Witness ==
    /\ result.op = "orderCreate"
    /\ result.status = "500"
    /\ result.thrown = "Produit non trouve"
    /\ MissingProduct
    /\ \A i \in DOMAIN RequestItems : Has(RequestItems[i], "price")
    /\ \E i \in DOMAIN RequestItems : RequestItems[i].product \in Products

====
